---------------------------- MODULE Spec2Model ----------------------------
(***************************************************************************)
(* Per-room end-to-end encryption client (E2EERoomClient) and its Cipher.  *)
(*                                                                         *)
(* Strings and byte arrays are sequences of numbers: a byte is 0..255, a   *)
(* character of a Base64 text is its index in the Base64 alphabet (0..63)  *)
(* and 64 stands for the padding character '='.                            *)
(*                                                                         *)
(* Execution is that of the JavaScript event loop: one action is one turn  *)
(* of the loop (an external call, a store change, a reactive flush, the    *)
(* completion of a crypto operation or of an RPC) together with the        *)
(* promise continuations that turn runs before the loop takes the next     *)
(* event.  A task is recorded at the await it is suspended on.             *)
(***************************************************************************)
EXTENDS Integers, Sequences, FiniteSets, TLC

(***************************************************************************)
(* Values                                                                  *)
(***************************************************************************)
\* JavaScript's undefined, for a value that is otherwise a string or a key:
\* a sequence no string equals
Undefined == << -1 >>

\* result of an operation that may throw
Ok(v) == [ok |-> TRUE, val |-> v, err |-> ""]
Throw(e) == [ok |-> FALSE, val |-> <<>>, err |-> e]

\* length of a key id: encryptedData.slice(0, 12)
KeyIdLen == 12

\* length of the initialisation vector: new Uint8Array(16)
VectorLen == 16

\* '=' of the Base64 alphabet
Pad == 64

\* String.prototype.slice(0, n) and slice(n) on a sequence
SliceTo(s, n) == SubSeq(s, 1, IF Len(s) < n THEN Len(s) ELSE n)
SliceFrom(s, n) == SubSeq(s, n + 1, Len(s))

(***************************************************************************)
(* Base64 (meteor/base64)                                                  *)
(***************************************************************************)
RECURSIVE Base64Encode(_)
Base64Encode(b) ==
  IF Len(b) = 0 THEN <<>>
  ELSE IF Len(b) = 1 THEN
    << b[1] \div 4, (b[1] % 4) * 16, Pad, Pad >>
  ELSE IF Len(b) = 2 THEN
    << b[1] \div 4, (b[1] % 4) * 16 + (b[2] \div 16), (b[2] % 16) * 4, Pad >>
  ELSE
    << b[1] \div 4, (b[1] % 4) * 16 + (b[2] \div 16),
       (b[2] % 16) * 4 + (b[3] \div 64), b[3] % 64 >>
      \o Base64Encode(SubSeq(b, 4, Len(b)))

\* the bytes the decoding loop writes for the characters from position i on
RECURSIVE Base64Written(_, _)
Base64Written(s, i) ==
  IF i > Len(s) THEN <<>>
  ELSE
    LET v == s[i]
        r == (i - 1) % 4
        p == IF i > 1 THEN s[i - 1] ELSE 0
        here ==
          IF r = 0 THEN <<>>
          ELSE IF r = 1 THEN << ((p * 4) % 256) + (v \div 16) >>
          ELSE IF v = Pad THEN <<>>
          ELSE IF r = 2 THEN << ((IF p = Pad THEN 0 ELSE p) % 16) * 16 + (v \div 4) >>
          ELSE << ((IF p = Pad THEN 0 ELSE p) % 4) * 64 + v >>
    IN here \o Base64Written(s, i + 1)

\* '=' where a group's first or second character is expected
Base64Invalid(s) ==
  \E i \in 1..Len(s) : s[i] = Pad /\ (i - 1) % 4 < 2

Base64DecodedLen(s) ==
  LET n == Len(s)
      a == IF n > 0 /\ s[n] = Pad THEN 1 ELSE 0
      b == IF a = 1 /\ n > 1 /\ s[n - 1] = Pad THEN 1 ELSE 0
      l == ((n * 3) \div 4) - a - b
  IN IF l < 0 THEN 0 ELSE l

\* Base64.decode: the array has the computed length, the loop fills it
Base64Decode(s) ==
  IF Base64Invalid(s) THEN Throw("invalid base64 string")
  ELSE
    LET w == Base64Written(s, 1)
        l == Base64DecodedLen(s)
    IN Ok([i \in 1..l |-> IF i <= Len(w) THEN w[i] ELSE 0])

(***************************************************************************)
(* Key ids and ciphertext framing                                          *)
(***************************************************************************)
extractEncryptedKeyId(encryptedData) == SliceTo(encryptedData, KeyIdLen)

\* extractEncryptedBody cutting one character further
extractEncryptedBodyShifted(encryptedData) ==
  Base64Decode(SliceFrom(encryptedData, KeyIdLen + 1))

extractEncryptedBody(encryptedData) == Base64Decode(SliceFrom(encryptedData, KeyIdLen))

\* the key id of exported key material: the first 12 characters of its Base64
KeyIdOf(exported) == extractEncryptedKeyId(Base64Encode(exported))


(***************************************************************************)
(* Crypto helpers (./helpers).  A symmetric key handle is identified with  *)
(* the exported material it was imported from or exports to.               *)
(***************************************************************************)
\* the byte of the key that the model's block transformation depends on
KeyByte(key) == IF Len(key) = 0 THEN 0 ELSE key[Len(key)]

\* the trailing block a decryption verifies (padding check)
AESCheck(vector, key) == (KeyByte(key) + vector[1]) % 256

encryptAES(vector, key, data) ==
  [i \in 1..Len(data) |->
     (data[i] + KeyByte(key) + vector[((i - 1) % Len(vector)) + 1]) % 256]
    \o << AESCheck(vector, key) >>

decryptAES(vector, key, cipherText) ==
  IF key = Undefined \/ Len(vector) # VectorLen \/ Len(cipherText) = 0
    THEN Throw("OperationError")
  ELSE IF cipherText[Len(cipherText)] # AESCheck(vector, key)
    THEN Throw("OperationError")
  ELSE Ok([i \in 1..(Len(cipherText) - 1) |->
             (cipherText[i] + 512 - KeyByte(key)
                - vector[((i - 1) % Len(vector)) + 1]) % 256])

joinVectorAndEncryptedData(vector, encryptedData) == vector \o encryptedData

splitVectorAndEncryptedData(cipherText) ==
  << SliceTo(cipherText, VectorLen), SliceFrom(cipherText, VectorLen) >>

\* asymmetric encryption for user u: only u's private key opens it
encryptRSA(u, data) ==
  << u >> \o [i \in 1..Len(data) |-> (data[i] + u) % 256]

decryptRSA(u, data) ==
  IF Len(data) = 0 \/ data[1] # u THEN Throw("OperationError")
  ELSE Ok([i \in 1..(Len(data) - 1) |-> (data[i + 1] + 256 - u) % 256])

(***************************************************************************)
(* EJSON of an EncryptableMessage {_id, text, userId, ts}: a field whose   *)
(* value is undefined is left out; a Date is written as its time value and *)
(* read back as a Date.                                                    *)
(***************************************************************************)
EJSONStringify(m) ==
  << 1, m._id, 3, m.userId, 4, m.ts >>
    \o (IF m.text = Undefined THEN <<>> ELSE << 2, Len(m.text) >> \o m.text)

EJSONParse(b) ==
  IF Len(b) < 6 \/ b[1] # 1 \/ b[3] # 3 \/ b[5] # 4 THEN Throw("SyntaxError")
  ELSE IF Len(b) = 6
    THEN Ok([_id |-> b[2], text |-> Undefined, userId |-> b[4], ts |-> b[6]])
  ELSE IF Len(b) < 8 \/ b[7] # 2 \/ Len(b) # 8 + b[8] THEN Throw("SyntaxError")
  ELSE Ok([_id |-> b[2], text |-> SubSeq(b, 9, Len(b)), userId |-> b[4], ts |-> b[6]])

(***************************************************************************)
(* Cipher                                                                  *)
(***************************************************************************)
\* Cipher.encrypt, with the vector crypto.getRandomValues drew
CipherEncrypt(input, key, keyID, vector) ==
  LET data == EJSONStringify(input)
      result == encryptAES(vector, key, data)
  IN keyID \o Base64Encode(joinVectorAndEncryptedData(vector, result))

isEncryptableMessage(x) == x.text # Undefined

\* the test Cipher.decrypt makes before anything else
\* KeyIdMatches comparing the first character only
KeyIdMatchesFirst(input, keyID) ==
  SliceTo(extractEncryptedKeyId(input), 1) = SliceTo(keyID, 1)

KeyIdMatches(input, keyID) == extractEncryptedKeyId(input) = keyID

\* what Cipher.decrypt does once the key id matched; aes counts the
\* decryptAES calls made
DecryptBody(input, key) ==
  LET encrypted == extractEncryptedBody(input)
  IN IF ~encrypted.ok THEN [res |-> encrypted, aes |-> 0]
     ELSE
       LET sp == splitVectorAndEncryptedData(encrypted.val)
           result == decryptAES(sp[1], key, sp[2])
       IN IF ~result.ok THEN [res |-> result, aes |-> 1]
          ELSE
            LET parsed == EJSONParse(result.val)
            IN IF ~parsed.ok THEN [res |-> parsed, aes |-> 1]
               ELSE IF ~isEncryptableMessage(parsed.val)
                 THEN [res |-> Throw("unknown decrypted message format"), aes |-> 1]
               ELSE [res |-> parsed, aes |-> 1]

CipherDecrypt(input, key, keyID) ==
  IF ~KeyIdMatches(input, keyID)
    THEN [res |-> Throw("input is not decryptable"), aes |-> 0]
  ELSE DecryptBody(input, key)


(***************************************************************************)
(* The data the environment draws from                                     *)
(***************************************************************************)
\* the user this client runs for, and the other members of the room
Me == 1
OtherUsers == {2, 3}

\* user.e2e: whether the user has registered a public key
HasE2E(u) == u % 2 = 0

\* the answers e2e.getUsersOfRoomWithoutKey can give
UserLists == { {}, OtherUsers }

\* Exported key material (JSON.stringify of a JWK), cut after its tenth
\* byte.  JwkAlg is {"alg":"A and JwkK is {"k":"abc, the two member orders a
\* JWK export can start with; the tenth byte tells the keys apart.
JwkAlg == << 123, 34, 97, 108, 103, 34, 58, 34, 65 >>
JwkK == << 123, 34, 107, 34, 58, 34, 97, 98, 99 >>
MatA == JwkAlg \o << 49 >>
MatB == JwkAlg \o << 50 >>
MatC == JwkK \o << 49 >>
Materials == {MatA, MatB, MatC}

\* what generateAESKey can produce
NewMaterials == {MatB, MatC}

\* JSON.parse and importAESKey accept exactly well-formed JWK strings
IsJwk(str) == str \in Materials

IdA == KeyIdOf(MatA)
IdC == KeyIdOf(MatC)

\* a wrapped key as e2e.updateGroupKey stores it: key id ++ Base64(RSA)
Wrapped(id, u, material) == id \o Base64Encode(encryptRSA(u, material))
WrapA == Wrapped(IdA, Me, MatA)
WrapOther == Wrapped(IdA, 2, MatA)

\* the vectors crypto.getRandomValues can draw
Vectors == { [i \in 1..VectorLen |-> 0], [i \in 1..VectorLen |-> i] }

\* messages: t is "e2e" or "plain", e2e is "pending", "done" or "none"
PlainText == << 104, 105 >>
CipherA == CipherEncrypt([_id |-> 1, text |-> PlainText, userId |-> 2, ts |-> 7],
                         MatA, IdA, [i \in 1..VectorLen |-> 0])
CipherC == CipherEncrypt([_id |-> 2, text |-> PlainText, userId |-> 2, ts |-> 7],
                         MatC, IdC, [i \in 1..VectorLen |-> 0])

NoLastMessage == [present |-> FALSE, t |-> "plain", e2e |-> "none", msg |-> <<>>]
LastMessageA == [present |-> TRUE, t |-> "e2e", e2e |-> "pending", msg |-> CipherA]

\* the state of the external store the metadata is read from
StoreOf(uid, encrypted, e2eKeyId, E2EKey, lastMessage) ==
  [uid |-> uid, subscription |-> TRUE, room |-> TRUE, allowE2E |-> TRUE,
   encrypted |-> encrypted, e2eKeyId |-> e2eKeyId, E2EKey |-> E2EKey,
   lastMessage |-> lastMessage]

StoreStates ==
  { StoreOf(FALSE, TRUE, Undefined, Undefined, NoLastMessage),
    StoreOf(TRUE, TRUE, Undefined, Undefined, NoLastMessage),
    StoreOf(TRUE, TRUE, IdA, Undefined, NoLastMessage),
    StoreOf(TRUE, TRUE, IdA, WrapA, LastMessageA),
    StoreOf(TRUE, TRUE, IdC, WrapA, NoLastMessage),
    StoreOf(TRUE, FALSE, IdA, WrapA, NoLastMessage),
    StoreOf(TRUE, TRUE, IdA, WrapOther, NoLastMessage) }

\* object identities a lastMessage read from the store can have
Refs == {1, 2}

\* the messages encryptMessage is called with
EncryptInputs ==
  { [_id |-> 3, t |-> "plain", e2e |-> "none", msg |-> PlainText],
    [_id |-> 1, t |-> "e2e", e2e |-> "pending", msg |-> CipherA] }

\* the messages decryptMessage is called with by other modules
DecryptInputs ==
  { [_id |-> 3, t |-> "plain", e2e |-> "none", msg |-> PlainText],
    [_id |-> 1, t |-> "e2e", e2e |-> "done", msg |-> PlainText],
    [_id |-> 1, t |-> "e2e", e2e |-> "pending", msg |-> CipherA] }

\* the Messages collection of the room at construction
InitialMessages ==
  [i \in {1, 2} |->
     [t |-> "e2e", e2e |-> "pending", msg |-> IF i = 1 THEN CipherA ELSE CipherC]]

(***************************************************************************)
(* Bounds                                                                  *)
(***************************************************************************)
\* evaluations of the reactive computation plus external calls of
\* encryptMessage and provideKeyToUser
MaxEvents == 2


(***************************************************************************)
(* State                                                                   *)
(***************************************************************************)
VARIABLES
  store,        \* Meteor.userId(), Subscriptions and Rooms, as getRoomMetadata reads them
  messages,     \* the Messages collection of the room
  computation,  \* this.computation is set
  invalidated,  \* the computation has to re-run at the next flush
  metadata,     \* this.metadata
  key,          \* this.key
  keyID,        \* this.keyID
  sessionKeyExportedString,
  life,         \* importSubscriptionKey and createGroupKey calls in flight
  dists,        \* encryptKeyForOtherParticipants calls of provideKeyToUser in flight
  parts,        \* encryptForParticipant calls in flight
  ops,          \* encryptMessage and decryptMessage calls in flight
  events,       \* evaluations of the computation and external calls so far
  nextTask,     \* number of lifecycle tasks and distributions started so far
  rpc,          \* history: the RPCs and notifications issued
  held,         \* history: how the key that is held was adopted
  hist,         \* history: emissions, handler runs, errors logged, store writes
  cIn, cKey, cKeyID, cVec, cOut, dKey, dKeyID, dOut, cPc   \* Cipher applied on its own

mainVars == << store, messages, computation, invalidated, metadata, key, keyID,
               sessionKeyExportedString, life, dists, parts, ops, events,
               nextTask, rpc, held, hist >>
cipherVars == << cIn, cKey, cKeyID, cVec, cOut, dKey, dKeyID, dOut, cPc >>
vars == << mainVars, cipherVars >>

\* RoomMetadata | undefined
NoMetadata ==
  [present |-> FALSE, uid |-> 0, encryptionRequired |-> FALSE, roomKeyID |-> Undefined,
   encryptedKey |-> Undefined, lastMessage |-> NoLastMessage, ref |-> 0]

\* a string that is undefined or empty is falsy
Falsy(str) == str = Undefined \/ Len(str) = 0

\* getRoomMetadata(rid); ref is the identity of the lastMessage object read
getRoomMetadata(s, ref) ==
  IF ~s.uid THEN NoMetadata
  ELSE IF ~s.subscription \/ ~s.room THEN NoMetadata
  ELSE IF ~s.allowE2E THEN NoMetadata
  ELSE IF ~s.encrypted /\ Falsy(s.E2EKey) THEN NoMetadata
  ELSE IF ~s.encrypted /\ Falsy(s.e2eKeyId) THEN NoMetadata
  ELSE [present |-> TRUE, uid |-> Me, encryptionRequired |-> s.encrypted,
        roomKeyID |-> s.e2eKeyId, encryptedKey |-> s.E2EKey,
        lastMessage |-> s.lastMessage,
        ref |-> IF s.lastMessage.present THEN ref ELSE 0]

\* isShallowEqual: Object.is on each field; lastMessage is an object and is
\* compared by identity
isShallowEqual(a, b) ==
  IF ~a.present /\ ~b.present THEN TRUE
  ELSE IF ~a.present \/ ~b.present THEN FALSE
  ELSE /\ a.uid = b.uid
       /\ a.encryptionRequired = b.encryptionRequired
       /\ a.roomKeyID = b.roomKeyID
       /\ a.encryptedKey = b.encryptedKey
       /\ a.lastMessage.present = b.lastMessage.present
       /\ a.ref = b.ref

\* the identities a fresh read may have: that of the object held only if it
\* is the same object
ReadRefs(s) ==
  { r \in Refs : r = metadata.ref => metadata.lastMessage = s.lastMessage }

\* no message
NoMessage == [_id |-> 0, t |-> "plain", e2e |-> "none", msg |-> << >>]

InitMain ==
  /\ store \in StoreStates
  /\ messages = InitialMessages
  /\ computation = FALSE
  /\ invalidated = FALSE
  /\ metadata = NoMetadata
  /\ key = Undefined
  /\ keyID = Undefined
  /\ sessionKeyExportedString = Undefined
  /\ life = << >>
  /\ dists = << >>
  /\ parts = << >>
  /\ ops = << >>
  /\ events = 0
  /\ nextTask = 0
  /\ rpc = [setRoomKeyID |-> << >>, getUsers |-> << >>, updateGroupKey |-> << >>,
            keyRequest |-> << >>]
  /\ held = [by |-> "none", task |-> 0, forKeyID |-> Undefined, announced |-> FALSE]
  /\ hist = [evals |-> 0, read |-> NoMetadata, metadataChanged |-> 0,
             emitted |-> NoMetadata, handled |-> 0, errors |-> 0,
             writes |-> [i \in DOMAIN InitialMessages |-> 0],
             encrypt |-> [n |-> 0, input |-> NoMessage, pc |-> "none",
                          keyHeld |-> FALSE, out |-> NoMessage],
             provide |-> [n |-> 0, keyID |-> Undefined], kept |-> 0, branch |-> "none",
             decrypt |-> [n |-> 0, input |-> NoMessage, waitForKey |-> FALSE,
                          pc |-> "none", keyHeld |-> FALSE, out |-> NoMessage],
             encrypted |-> NoMessage]


(***************************************************************************)
(* Waiters: fetchKey / fetchKeyID, and the calls that use them             *)
(***************************************************************************)
\* an encryptMessage or decryptMessage call; msg is the message it was given
OpTask(op, msg) ==
  [op |-> op, pc |-> "fetchKey", msg |-> msg, key |-> Undefined, keyID |-> Undefined]

\* StartCipher giving the message back when it is not decryptable
StartCipherLenient(task, k, id) ==
  IF task.op = "encryptMessage"
    THEN [task EXCEPT !.pc = "encryptAES", !.key = k, !.keyID = id]
  ELSE IF ~KeyIdMatches(task.msg.msg, id) \/ ~extractEncryptedBody(task.msg.msg).ok
    THEN [task EXCEPT !.pc = "returned", !.key = k, !.keyID = id]
  ELSE [task EXCEPT !.pc = "decryptAES", !.key = k, !.keyID = id]

\* the call reaches the cipher with key k and key id id.  Cipher.decrypt
\* throws before its first await when the key id or the encoding is wrong;
\* Cipher.encrypt always reaches encryptAES
StartCipher(task, k, id) ==
  IF task.op = "encryptMessage"
    THEN [task EXCEPT !.pc = "encryptAES", !.key = k, !.keyID = id]
  ELSE IF ~KeyIdMatches(task.msg.msg, id) \/ ~extractEncryptedBody(task.msg.msg).ok
    THEN [task EXCEPT !.pc = "rejected", !.key = k, !.keyID = id]
  ELSE [task EXCEPT !.pc = "decryptAES", !.key = k, !.keyID = id]

\* fetchKey, then fetchKeyID, entered with the fields as they are now
EnterFetch(task, k, id) ==
  IF k = Undefined THEN task
  ELSE IF id = Undefined THEN [task EXCEPT !.pc = "fetchKeyID", !.key = k]
  ELSE StartCipher(task, k, id)

\* the once('keyChanged') callback of a suspended call
OnKeyChanged(task, k, id) ==
  IF task.pc = "fetchKey" THEN EnterFetch(task, k, id)
  ELSE IF task.pc = "fetchKeyID" /\ ~Falsy(id) THEN StartCipher(task, task.key, id)
  ELSE task

NotRejected(task) == task.pc # "rejected"

\* emit('keyChanged') with the fields k, id: every callback runs
WakeWaiters(tasks, k, id) ==
  SelectSeq([i \in 1..Len(tasks) |-> OnKeyChanged(tasks[i], k, id)], NotRejected)

Suspended(task) == task.pc \in {"fetchKey", "fetchKeyID"}

\* DecryptMessageStart failing when no key is held
DecryptMessageStartStrict(op, msg, waitForKey, k, id) ==
  IF msg.t # "e2e" \/ msg.e2e = "done" THEN [OpTask(op, msg) EXCEPT !.pc = "returned"]
  ELSE IF k = Undefined \/ Falsy(id) THEN [OpTask(op, msg) EXCEPT !.pc = "rejected"]
  ELSE StartCipher(OpTask(op, msg), k, id)

\* decryptMessage(message, { waitForKey }) up to its first suspension;
\* "returned" when it returns the message as it is
DecryptMessageStart(op, msg, waitForKey, k, id) ==
  IF msg.t # "e2e" \/ msg.e2e = "done" THEN [OpTask(op, msg) EXCEPT !.pc = "returned"]
  ELSE IF waitForKey THEN EnterFetch(OpTask(op, msg), k, id)
  ELSE IF k = Undefined \/ Falsy(id) THEN [OpTask(op, msg) EXCEPT !.pc = "returned"]
  ELSE StartCipher(OpTask(op, msg), k, id)

\* decryptLastMessage up to its first suspension
DecryptLastMessageStart(md, k, id) ==
  IF ~md.present \/ ~md.lastMessage.present THEN << >>
  ELSE
    LET m == [_id |-> 0, t |-> md.lastMessage.t, e2e |-> md.lastMessage.e2e,
              msg |-> md.lastMessage.msg]
    IN << DecryptMessageStart("decryptLastMessage", m, TRUE, k, id) >>

\* Messages.find({ rid, t: 'e2e', e2e: 'pending' })
PendingIds(msgs) == { i \in DOMAIN msgs : msgs[i].t = "e2e" /\ msgs[i].e2e = "pending" }

RECURSIVE SeqOfSet(_)
SeqOfSet(S) ==
  IF S = {} THEN << >>
  ELSE LET x == CHOOSE y \in S : \A z \in S : y <= z
       IN << x >> \o SeqOfSet(S \ {x})

\* decryptPendingMessages up to the first suspension of each callback
DecryptPendingStart(msgs, k, id) ==
  LET ids == SeqOfSet(PendingIds(msgs))
  IN [n \in 1..Len(ids) |->
        DecryptMessageStart("decryptPending",
          [_id |-> ids[n], t |-> msgs[ids[n]].t, e2e |-> msgs[ids[n]].e2e,
           msg |-> msgs[ids[n]].msg], FALSE, k, id)]

InFlight(task) == task.pc \notin {"returned", "rejected"}
Returned(task) == task.pc = "returned"

\* the writes of callbacks that got their message back at once:
\* Messages.direct.update({ _id }, rest) with the message as it was
RECURSIVE CountWrites(_, _)
CountWrites(w, tasks) ==
  IF Len(tasks) = 0 THEN w
  ELSE CountWrites(
         IF tasks[1].op = "decryptPending" /\ tasks[1].msg._id \in DOMAIN w
           THEN [w EXCEPT ![tasks[1].msg._id] = @ + 1] ELSE w,
         Tail(tasks))


(***************************************************************************)
(* Key Lifecycle Manager                                                   *)
(***************************************************************************)
NotHeld == [by |-> "none", task |-> 0, forKeyID |-> Undefined, announced |-> FALSE]

discardKey ==
  /\ key' = Undefined
  /\ keyID' = Undefined
  /\ sessionKeyExportedString' = Undefined
  /\ held' = NotHeld

\* AdoptKey without its last assignment
AdoptKeyWithoutExport(k, id, exported) ==
  /\ key' = k
  /\ keyID' = id
  /\ UNCHANGED sessionKeyExportedString

\* the three assignments that adopt a key
AdoptKey(k, id, exported) ==
  /\ key' = k
  /\ keyID' = id
  /\ sessionKeyExportedString' = exported

\* emit('keyChanged') once the fields have their new values
emitKeyChanged(tasks) == ops' = WakeWaiters(tasks, key', keyID')

LifeTask(kind, id, pc, body, forKeyID) ==
  [kind |-> kind, id |-> id, pc |-> pc, body |-> body, mat |-> Undefined,
   keyID |-> Undefined, forKeyID |-> forKeyID]

\* the handler holds a key that is the room's
KeyIsValidFor(md) == ~Falsy(keyID) /\ key # Undefined /\ keyID = md.roomKeyID

\* handleMetadataChanged with this.metadata = md; h is the history so far
handleMetadataChanged(md, h) ==
  IF ~md.present THEN
    /\ discardKey
    /\ emitKeyChanged(ops)
    /\ hist' = [h EXCEPT !.branch = "absent", !.handled = @ + 1]
    /\ UNCHANGED << life, nextTask, rpc >>
  ELSE IF KeyIsValidFor(md) THEN
    LET started == DecryptLastMessageStart(md, key, keyID)
                     \o DecryptPendingStart(messages, key, keyID)
    IN /\ ops' = ops \o SelectSeq(started, InFlight)
       /\ hist' = [h EXCEPT !.branch = "valid", !.handled = @ + 1,
                            !.writes = CountWrites(@, SelectSeq(started, Returned))]
       /\ UNCHANGED << key, keyID, sessionKeyExportedString, held, life, nextTask, rpc >>
  ELSE
    /\ discardKey
    /\ emitKeyChanged(ops)
    /\ IF ~Falsy(md.encryptedKey) THEN
         \* importSubscriptionKey: extractEncryptedBody, then await decryptRSA
         LET body == extractEncryptedBody(md.encryptedKey)
         IN /\ life' = IF body.ok
                         THEN Append(life, LifeTask("import", nextTask + 1, "decryptRSA",
                                                     body.val, md.roomKeyID))
                         ELSE life
            /\ nextTask' = nextTask + 1
            /\ hist' = [h EXCEPT !.branch = "import", !.handled = @ + 1,
                                 !.errors = IF body.ok THEN @ ELSE @ + 1]
            /\ UNCHANGED rpc
       ELSE IF Falsy(md.roomKeyID) THEN
         \* createGroupKey: await generateAESKey
         /\ life' = Append(life, LifeTask("create", nextTask + 1, "generateAESKey",
                                          << >>, md.roomKeyID))
         /\ nextTask' = nextTask + 1
         /\ hist' = [h EXCEPT !.branch = "create", !.handled = @ + 1]
         /\ UNCHANGED rpc
       ELSE
         \* requestGroupKey
         /\ rpc' = [rpc EXCEPT !.keyRequest = Append(@, md.roomKeyID)]
         /\ hist' = [h EXCEPT !.branch = "request", !.handled = @ + 1]
         /\ UNCHANGED << life, nextTask >>

(***************************************************************************)
(* Metadata Observer                                                       *)
(***************************************************************************)
\* RunAutorun without the comparison with the stored snapshot
RunAutorunAlways(s, ref) ==
  LET md == getRoomMetadata(s, ref)
      h == [hist EXCEPT !.evals = @ + 1, !.read = md]
  IN /\ metadata' = md
     /\ handleMetadataChanged(md, [h EXCEPT !.metadataChanged = @ + 1,
                                            !.emitted = md])

\* the function given to Tracker.autorun, reading the store s and a lastMessage
\* of identity ref
RunAutorun(s, ref) ==
  LET md == getRoomMetadata(s, ref)
      h == [hist EXCEPT !.evals = @ + 1, !.read = md]
  IN IF isShallowEqual(metadata, md) THEN
       /\ hist' = h
       /\ UNCHANGED << metadata, key, keyID, sessionKeyExportedString, held, life,
                       nextTask, rpc, ops >>
     ELSE
       /\ metadata' = md
       /\ handleMetadataChanged(md, [h EXCEPT !.metadataChanged = @ + 1,
                                              !.emitted = md])

\* Start creating a computation whether or not one exists
StartAlways ==
  /\ events < MaxEvents
  /\ events' = events + 1
  /\ invalidated' = FALSE
  /\ \E ref \in ReadRefs(store) :
       LET md == getRoomMetadata(store, ref)
           h == [hist EXCEPT !.evals = @ + 1, !.read = md,
                             !.kept = IF computation THEN @ + 1 ELSE @]
       IN IF isShallowEqual(metadata, md) THEN
            /\ hist' = h
            /\ UNCHANGED << metadata, key, keyID, sessionKeyExportedString, held,
                            life, nextTask, rpc, ops >>
          ELSE
            /\ metadata' = md
            /\ handleMetadataChanged(md, [h EXCEPT !.metadataChanged = @ + 1,
                                                   !.emitted = md])
  /\ computation' = TRUE
  /\ UNCHANGED << store, messages, dists, parts, cipherVars >>

\* start(): a computation that exists is kept; a new one runs at once
Start ==
  /\ events < MaxEvents
  /\ events' = events + 1
  /\ IF computation THEN
       /\ hist' = [hist EXCEPT !.kept = @ + 1]
       /\ UNCHANGED << metadata, key, keyID, sessionKeyExportedString, held, life,
                       nextTask, rpc, ops, invalidated >>
     ELSE
       /\ invalidated' = FALSE
       /\ \E ref \in ReadRefs(store) : RunAutorun(store, ref)
  /\ computation' = TRUE
  /\ UNCHANGED << store, messages, dists, parts, cipherVars >>

\* stop()
Stop ==
  /\ computation
  /\ computation' = FALSE
  /\ invalidated' = FALSE
  /\ UNCHANGED << store, messages, metadata, key, keyID, sessionKeyExportedString,
                  held, life, dists, parts, ops, events, nextTask, rpc, hist,
                  cipherVars >>

\* The store changes.  A running computation that read it is invalidated and
\* Tracker re-runs it at its next flush; nothing the client does before that
\* flush reads the store, so the re-run is taken in the same step.
StoreChange(s) ==
  /\ store' = s
  /\ IF computation THEN
       /\ events < MaxEvents
       /\ events' = events + 1
       /\ invalidated' = FALSE
       /\ \E ref \in ReadRefs(s) : RunAutorun(s, ref)
     ELSE
       UNCHANGED << metadata, key, keyID, sessionKeyExportedString, held, life,
                    nextTask, rpc, ops, hist, events, invalidated >>
  /\ UNCHANGED << messages, computation, dists, parts, cipherVars >>

\* Tracker's flush after the client itself wrote to the store
Flush ==
  /\ computation
  /\ invalidated
  /\ invalidated' = FALSE
  /\ \E ref \in ReadRefs(store) : RunAutorun(store, ref)
  /\ UNCHANGED << store, messages, computation, dists, parts, events, cipherVars >>

(***************************************************************************)
(* importSubscriptionKey and createGroupKey, resumed at their awaits       *)
(***************************************************************************)
Remove(seq, i) == SubSeq(seq, 1, i - 1) \o SubSeq(seq, i + 1, Len(seq))

\* the .catch of the handler: console.error(error)
LogError == hist' = [hist EXCEPT !.errors = @ + 1]

\* decryptRSA settles; JSON.parse; await importAESKey
ImportDecryptRSADone(i) ==
  /\ life[i].kind = "import"
  /\ life[i].pc = "decryptRSA"
  /\ LET r == decryptRSA(Me, life[i].body)
     IN IF r.ok /\ IsJwk(r.val) THEN
          /\ life' = [life EXCEPT ![i].pc = "importAESKey", ![i].mat = r.val]
          /\ UNCHANGED hist
        ELSE
          /\ life' = Remove(life, i)
          /\ LogError
  /\ UNCHANGED << store, messages, computation, invalidated, metadata, key, keyID,
                  sessionKeyExportedString, held, dists, parts, ops, events,
                  nextTask, rpc, cipherVars >>

\* importAESKey settles: the key is adopted, the promise resolves and the
\* handler's .then emits keyChanged
ImportAESKeyDone(i) ==
  /\ life[i].kind = "import"
  /\ life[i].pc = "importAESKey"
  /\ AdoptKey(life[i].mat, KeyIdOf(life[i].mat), life[i].mat)
  /\ held' = [by |-> "import", task |-> life[i].id, forKeyID |-> life[i].forKeyID,
              announced |-> TRUE]
  /\ emitKeyChanged(ops)
  /\ life' = Remove(life, i)
  /\ UNCHANGED << store, messages, computation, invalidated, metadata, dists, parts,
                  events, nextTask, rpc, hist, cipherVars >>

\* generateAESKey settles with a new key; await exportJWKKey
CreateGenerateDone(i, m) ==
  /\ life[i].kind = "create"
  /\ life[i].pc = "generateAESKey"
  /\ life' = [life EXCEPT ![i].pc = "exportJWKKey", ![i].mat = m]
  /\ UNCHANGED << store, messages, computation, invalidated, metadata, key, keyID,
                  sessionKeyExportedString, held, dists, parts, ops, events,
                  nextTask, rpc, hist, cipherVars >>

\* exportJWKKey settles: the key id is derived and e2e.setRoomKeyID posted
CreateExportDone(i) ==
  /\ life[i].kind = "create"
  /\ life[i].pc = "exportJWKKey"
  /\ life' = [life EXCEPT ![i].pc = "setRoomKeyID", ![i].keyID = KeyIdOf(life[i].mat)]
  /\ rpc' = [rpc EXCEPT !.setRoomKeyID =
               Append(@, [task |-> life[i].id, keyID |-> KeyIdOf(life[i].mat)])]
  /\ UNCHANGED << store, messages, computation, invalidated, metadata, key, keyID,
                  sessionKeyExportedString, held, dists, parts, ops, events,
                  nextTask, hist, cipherVars >>

\* the answer to e2e.setRoomKeyID: on success the key is adopted and
\* encryptKeyForOtherParticipants sends e2e.getUsersOfRoomWithoutKey
CreateSetRoomKeyIDDone(i, success) ==
  /\ life[i].kind = "create"
  /\ life[i].pc = "setRoomKeyID"
  /\ IF success THEN
       /\ AdoptKey(life[i].mat, life[i].keyID, life[i].mat)
       /\ held' = [by |-> "create", task |-> life[i].id, forKeyID |-> life[i].forKeyID,
                   announced |-> FALSE]
       /\ life' = [life EXCEPT ![i].pc = "getUsers"]
       /\ rpc' = [rpc EXCEPT !.getUsers = Append(@, [dist |-> life[i].id,
                                                      returned |-> FALSE, users |-> {}])]
       /\ UNCHANGED hist
     ELSE
       /\ life' = Remove(life, i)
       /\ LogError
       /\ UNCHANGED << key, keyID, sessionKeyExportedString, held, rpc >>
  /\ UNCHANGED << store, messages, computation, invalidated, metadata, dists, parts,
                  ops, events, nextTask, cipherVars >>

(***************************************************************************)
(* Participant Key Distributor                                             *)
(***************************************************************************)
\* PartsFor without the test of user.e2e
PartsForEveryUser(dist, users) ==
  LET us == SeqOfSet(users)
  IN [n \in 1..Len(us) |->
        [dist |-> dist, user |-> us[n], pc |-> "importRSAKey", mat |-> Undefined]]

\* encryptForParticipant(user), for each user, up to its first await: importRSAKey
PartsFor(dist, users) ==
  LET us == SeqOfSet({ u \in users : HasE2E(u) })
  IN [n \in 1..Len(us) |->
        [dist |-> dist, user |-> us[n], pc |-> "importRSAKey", mat |-> Undefined]]

\* the answer recorded with the request it belongs to
Answered(reqs, dist, users) ==
  [n \in 1..Len(reqs) |->
     IF reqs[n].dist = dist THEN [reqs[n] EXCEPT !.returned = TRUE, !.users = users]
     ELSE reqs[n]]

\* the answer to e2e.getUsersOfRoomWithoutKey of a creation: each user gets
\* an encryptForParticipant call, createGroupKey resolves and the handler's
\* .then emits keyChanged; a failure rejects createGroupKey
CreateGetUsersDone(i, success, users) ==
  /\ life[i].kind = "create"
  /\ life[i].pc = "getUsers"
  /\ life' = Remove(life, i)
  /\ IF success THEN
       /\ parts' = parts \o PartsFor(life[i].id, users)
       /\ rpc' = [rpc EXCEPT !.getUsers = Answered(@, life[i].id, users)]
       /\ ops' = WakeWaiters(ops, key, keyID)
       /\ held' = [held EXCEPT !.announced = (held.by # "none")]
       /\ UNCHANGED hist
     ELSE
       /\ LogError
       /\ UNCHANGED << parts, rpc, ops, held >>
  /\ UNCHANGED << store, messages, computation, invalidated, metadata, key, keyID,
                  sessionKeyExportedString, dists, events, nextTask,
                  cipherVars >>

\* ProvideKeyToUser without the comparison of the key ids
ProvideKeyToUserAlways(id) ==
  /\ events < MaxEvents
  /\ events' = events + 1
  /\ hist' = [hist EXCEPT !.provide = [n |-> @.n + 1, keyID |-> id]]
  /\ dists' = Append(dists, [id |-> nextTask + 1])
  /\ nextTask' = nextTask + 1
  /\ rpc' = [rpc EXCEPT !.getUsers = Append(@, [dist |-> nextTask + 1,
                                                 returned |-> FALSE, users |-> {}])]
  /\ UNCHANGED << store, messages, computation, invalidated, metadata, key, keyID,
                  sessionKeyExportedString, held, life, parts, ops, cipherVars >>

\* provideKeyToUser(keyID)
ProvideKeyToUser(id) ==
  /\ events < MaxEvents
  /\ events' = events + 1
  /\ hist' = [hist EXCEPT !.provide = [n |-> @.n + 1, keyID |-> id]]
  /\ IF keyID # id THEN
       /\ UNCHANGED << dists, nextTask, rpc >>
     ELSE
       /\ dists' = Append(dists, [id |-> nextTask + 1])
       /\ nextTask' = nextTask + 1
       /\ rpc' = [rpc EXCEPT !.getUsers = Append(@, [dist |-> nextTask + 1,
                                                      returned |-> FALSE, users |-> {}])]
  /\ UNCHANGED << store, messages, computation, invalidated, metadata, key, keyID,
                  sessionKeyExportedString, held, life, parts, ops, cipherVars >>

\* DistGetUsersDone discarding the key when the request fails
DistGetUsersDoneDiscarding(j, success, users) ==
  /\ dists' = Remove(dists, j)
  /\ IF success THEN
       /\ parts' = parts \o PartsFor(dists[j].id, users)
       /\ rpc' = [rpc EXCEPT !.getUsers = Answered(@, dists[j].id, users)]
       /\ UNCHANGED << key, keyID, sessionKeyExportedString, held >>
     ELSE
       /\ discardKey
       /\ UNCHANGED << parts, rpc >>
  /\ UNCHANGED << store, messages, computation, invalidated, metadata, life, ops,
                  events, nextTask, hist, cipherVars >>

\* the answer to e2e.getUsersOfRoomWithoutKey of provideKeyToUser
DistGetUsersDone(j, success, users) ==
  /\ dists' = Remove(dists, j)
  /\ IF success THEN
       /\ parts' = parts \o PartsFor(dists[j].id, users)
       /\ rpc' = [rpc EXCEPT !.getUsers = Answered(@, dists[j].id, users)]
     ELSE
       UNCHANGED << parts, rpc >>
  /\ UNCHANGED << store, messages, computation, invalidated, metadata, key, keyID,
                  sessionKeyExportedString, held, life, ops, events, nextTask,
                  hist, cipherVars >>

\* importRSAKey settles: without exported material the call returns,
\* otherwise the material is handed to encryptRSA
PartImportRSAKeyDone(p) ==
  /\ parts[p].pc = "importRSAKey"
  /\ IF Falsy(sessionKeyExportedString)
       THEN parts' = Remove(parts, p)
       ELSE parts' = [parts EXCEPT ![p].pc = "encryptRSA",
                                   ![p].mat = sessionKeyExportedString]
  /\ UNCHANGED << store, messages, computation, invalidated, metadata, key, keyID,
                  sessionKeyExportedString, held, life, dists, ops, events,
                  nextTask, rpc, hist, cipherVars >>

\* String(undefined), in Base64 characters
UndefinedText == << 46, 39, 29, 30, 31, 34, 39, 30, 29 >>

\* this.keyID + text
KeyIDPlus(text) == (IF keyID = Undefined THEN UndefinedText ELSE keyID) \o text

\* encryptRSA settles: e2e.updateGroupKey is posted with this.keyID as it is
\* now; nothing follows the answer to the post
PartEncryptRSADone(p) ==
  /\ parts[p].pc = "encryptRSA"
  /\ rpc' = [rpc EXCEPT !.updateGroupKey =
               Append(@, [dist |-> parts[p].dist, uid |-> parts[p].user,
                          mat |-> parts[p].mat,
                          key |-> KeyIDPlus(Base64Encode(
                                     encryptRSA(parts[p].user, parts[p].mat)))])]
  /\ parts' = Remove(parts, p)
  /\ UNCHANGED << store, messages, computation, invalidated, metadata, key, keyID,
                  sessionKeyExportedString, held, life, dists, ops, events,
                  nextTask, hist, cipherVars >>


(***************************************************************************)
(* encryptMessage and the decryptions in flight                            *)
(***************************************************************************)
\* the time stamp encryptMessage puts in the encrypted record
Now == 9

\* EncryptMessageStart without the test of message.t
EncryptMessageStartAnyType(m, md, k, id) ==
  IF ~md.present THEN [OpTask("encryptMessage", m) EXCEPT !.pc = "returned"]
  ELSE IF ~md.encryptionRequired THEN [OpTask("encryptMessage", m) EXCEPT !.pc = "returned"]
  ELSE EnterFetch(OpTask("encryptMessage", m), k, id)

\* encryptMessage(message) up to its return or first suspension
EncryptMessageStart(m, md, k, id) ==
  IF ~md.present THEN [OpTask("encryptMessage", m) EXCEPT !.pc = "returned"]
  ELSE IF ~md.encryptionRequired THEN [OpTask("encryptMessage", m) EXCEPT !.pc = "returned"]
  ELSE IF m.t = "e2e" THEN [OpTask("encryptMessage", m) EXCEPT !.pc = "returned"]
  ELSE EnterFetch(OpTask("encryptMessage", m), k, id)

EncryptMessage(m) ==
  /\ events < MaxEvents
  /\ events' = events + 1
  /\ LET task == EncryptMessageStart(m, metadata, key, keyID)
     IN /\ ops' = IF InFlight(task) THEN Append(ops, task) ELSE ops
        /\ hist' = [hist EXCEPT !.encrypt =
                      [n |-> @.n + 1, input |-> m, pc |-> task.pc,
                       keyHeld |-> key # Undefined,
                       out |-> IF Returned(task) THEN task.msg ELSE m]]
  /\ UNCHANGED << store, messages, computation, invalidated, metadata, key, keyID,
                  sessionKeyExportedString, held, life, dists, parts,
                  nextTask, rpc, cipherVars >>

\* decryptMessage(message, { waitForKey }) called by another module
DecryptMessage(m, waitForKey) ==
  /\ events < MaxEvents
  /\ events' = events + 1
  /\ LET task == DecryptMessageStart("decryptMessage", m, waitForKey, key, keyID)
     IN /\ ops' = IF InFlight(task) THEN Append(ops, task) ELSE ops
        /\ hist' = [hist EXCEPT !.decrypt =
                      [n |-> @.n + 1, input |-> m, waitForKey |-> waitForKey,
                       pc |-> task.pc, keyHeld |-> key # Undefined /\ ~Falsy(keyID),
                       out |-> [_id |-> m._id, t |-> task.msg.t, e2e |-> task.msg.e2e,
                                msg |-> task.msg.msg]]]
  /\ UNCHANGED << store, messages, computation, invalidated, metadata, key, keyID,
                  sessionKeyExportedString, held, life, dists, parts,
                  nextTask, rpc, cipherVars >>

\* encryptAES settles: encryptMessage returns the encrypted message
EncryptAESDone(i, vector) ==
  /\ ops[i].pc = "encryptAES"
  /\ ops' = Remove(ops, i)
  /\ hist' = [hist EXCEPT !.encrypted =
                [ops[i].msg EXCEPT
                   !.t = "e2e", !.e2e = "pending",
                   !.msg = CipherEncrypt([_id |-> ops[i].msg._id,
                                          text |-> ops[i].msg.msg,
                                          userId |-> Me, ts |-> Now],
                                         ops[i].key, ops[i].keyID, vector)]]
  /\ UNCHANGED << store, messages, computation, invalidated, metadata, key, keyID,
                  sessionKeyExportedString, held, life, dists, parts, events,
                  nextTask, rpc, cipherVars >>

\* Rooms.direct.update and Subscriptions.direct.update of decryptLastMessage
UpdateLastMessage(s, text) ==
  IF ~s.room THEN s
  ELSE [s EXCEPT !.lastMessage =
          [present |-> TRUE, t |-> IF @.present THEN @.t ELSE "plain",
           e2e |-> "done", msg |-> text]]

\* decryptAES settles for decryptMessage: the caller writes the result back
DecryptAESDone(i) ==
  /\ ops[i].pc = "decryptAES"
  /\ ops' = Remove(ops, i)
  /\ LET r == DecryptBody(ops[i].msg.msg, ops[i].key).res
     IN IF ~r.ok THEN
          /\ UNCHANGED << store, invalidated, messages, hist >>
        ELSE IF ops[i].op = "decryptMessage" THEN
          /\ UNCHANGED << store, invalidated, messages, hist >>
        ELSE IF ops[i].op = "decryptLastMessage" THEN
          /\ store' = UpdateLastMessage(store, r.val.text)
          /\ invalidated' = (invalidated \/ (computation /\ store' # store))
          /\ UNCHANGED << messages, hist >>
        ELSE
          /\ messages' = [messages EXCEPT ![ops[i].msg._id] =
                            [t |-> ops[i].msg.t, e2e |-> "done", msg |-> r.val.text]]
          /\ hist' = [hist EXCEPT !.writes[ops[i].msg._id] = @ + 1]
          /\ UNCHANGED << store, invalidated >>
  /\ UNCHANGED << computation, metadata, key, keyID, sessionKeyExportedString, held,
                  life, dists, parts, events, nextTask, rpc, cipherVars >>

(***************************************************************************)
(* Cipher applied on its own: encrypt, then decrypt what it returned       *)
(***************************************************************************)
\* the key ids Cipher is called with: of the right length, shorter, longer
CipherKeyIDs ==
  { IdA, IdC, SubSeq(IdA, 1, KeyIdLen - 1), IdA \o << 0 >>, << >> }

CipherInputs ==
  { [_id |-> i, text |-> t, userId |-> Me, ts |-> Now] :
      i \in {1, 2}, t \in {PlainText, << >>} }

CipherIdle ==
  /\ cIn = [_id |-> 0, text |-> << >>, userId |-> 0, ts |-> 0]
  /\ cKey = Undefined /\ cKeyID = Undefined /\ cVec = << >> /\ cOut = << >>
  /\ dKey = Undefined /\ dKeyID = Undefined
  /\ dOut = [res |-> Throw(""), aes |-> 0]
  /\ cPc = "idle"

CipherInit ==
  /\ cIn \in CipherInputs
  /\ cKey \in Materials
  /\ cKeyID \in CipherKeyIDs
  /\ cVec \in Vectors
  /\ cOut = << >>
  /\ dKey = Undefined /\ dKeyID = Undefined
  /\ dOut = [res |-> Throw(""), aes |-> 0]
  /\ cPc = "input"

ApplyEncrypt ==
  /\ cPc = "input"
  /\ cOut' = CipherEncrypt(cIn, cKey, cKeyID, cVec)
  /\ cPc' = "encrypted"
  /\ UNCHANGED << cIn, cKey, cKeyID, cVec, dKey, dKeyID, dOut, mainVars >>

ApplyDecrypt(k, id) ==
  /\ cPc = "encrypted"
  /\ dKey' = k
  /\ dKeyID' = id
  /\ dOut' = CipherDecrypt(cOut, k, id)
  /\ cPc' = "decrypted"
  /\ UNCHANGED << cIn, cKey, cKeyID, cVec, cOut, mainVars >>

(***************************************************************************)
(* Specifications                                                          *)
(***************************************************************************)
Init == InitMain /\ CipherIdle


Next ==
  \/ Start
  \/ Stop
  \/ \E s \in StoreStates : StoreChange(s)
  \/ Flush
  \/ \E i \in 1..Len(life) : ImportDecryptRSADone(i)
  \/ \E i \in 1..Len(life) : ImportAESKeyDone(i)
  \/ \E i \in 1..Len(life), m \in NewMaterials : CreateGenerateDone(i, m)
  \/ \E i \in 1..Len(life) : CreateExportDone(i)
  \/ \E i \in 1..Len(life), success \in BOOLEAN : CreateSetRoomKeyIDDone(i, success)
  \/ \E i \in 1..Len(life), success \in BOOLEAN, users \in UserLists :
       CreateGetUsersDone(i, success, users)
  \/ \E id \in {IdA, IdC} : ProvideKeyToUser(id)
  \/ \E m \in DecryptInputs, waitForKey \in BOOLEAN : DecryptMessage(m, waitForKey)
  \/ \E j \in 1..Len(dists), success \in BOOLEAN, users \in UserLists :
       DistGetUsersDone(j, success, users)
  \/ \E p \in 1..Len(parts) : PartImportRSAKeyDone(p)
  \/ \E p \in 1..Len(parts) : PartEncryptRSADone(p)
  \/ \E m \in EncryptInputs : EncryptMessage(m)
  \/ \E i \in 1..Len(ops), vector \in Vectors : EncryptAESDone(i, vector)
  \/ \E i \in 1..Len(ops) : DecryptAESDone(i)

Spec == Init /\ [][Next]_vars

CipherNext ==
  \/ ApplyEncrypt
  \/ \E k \in Materials, id \in CipherKeyIDs : ApplyDecrypt(k, id)

\* Cipher on its own: the client is constructed and left alone
CipherSpecInit ==
  /\ InitMain
  /\ store = StoreOf(FALSE, TRUE, Undefined, Undefined, NoLastMessage)
  /\ CipherInit

CipherSpec == CipherSpecInit /\ [][CipherNext]_vars

(***************************************************************************)
(* Properties                                                              *)
(***************************************************************************)
AllSet == key # Undefined /\ keyID # Undefined /\ sessionKeyExportedString # Undefined
AllUnset == key = Undefined /\ keyID = Undefined /\ sessionKeyExportedString = Undefined

\* nothing of the client is in flight: only an external event can come next
Quiescent ==
  /\ Len(life) = 0 /\ Len(dists) = 0 /\ Len(parts) = 0
  /\ \A i \in 1..Len(ops) : Suspended(ops[i])
  /\ ~invalidated

\* C1: between any two turns of the event loop key, keyID and
\* sessionKeyExportedString are all set or all unset; they are all unset
\* after discardKey and all set after an adoption by importSubscriptionKey
\* or createGroupKey.
C1_KeyTripleAtomic ==
  /\ AllSet \/ AllUnset
  /\ held.by = "none" => AllUnset
  /\ held.by \in {"import", "create"} => AllSet

\* a key was adopted after the handler had discarded
C1_Witness == AllSet /\ hist.handled >= 1 /\ held.by = "import"

\* the creations that posted e2e.setRoomKeyID, the pushes of a distribution
SetRoomKeyIDCalls(t) ==
  { n \in 1..Len(rpc.setRoomKeyID) : rpc.setRoomKeyID[n].task = t }
Pushes(d, u) ==
  { n \in 1..Len(rpc.updateGroupKey) :
      rpc.updateGroupKey[n].dist = d /\ rpc.updateGroupKey[n].uid = u }
Answer(d) == { n \in 1..Len(rpc.getUsers) : rpc.getUsers[n].dist = d }
Creations == { rpc.setRoomKeyID[n].task : n \in 1..Len(rpc.setRoomKeyID) }

\* the creation t has run to its end with its key held ever since
CreationComplete(t) ==
  /\ held.by = "create" /\ held.task = t
  /\ \A i \in 1..Len(life) : life[i].id # t
  /\ \A p \in 1..Len(parts) : parts[p].dist # t
  /\ \E n \in Answer(t) : rpc.getUsers[n].returned

C3_ImportedKeyMatchesRoomKeyID ==
  held.by = "import" => keyID = held.forKeyID

\* the held key decrypts the message i
Decryptable(i) ==
  /\ KeyIdMatches(messages[i].msg, keyID)
  /\ DecryptBody(messages[i].msg, key).res.ok

\* C4: a pending message encrypted under K is decrypted and written as done
\* once K is adopted, with no further external change, and the update of one
\* message is written exactly once.
C4_PendingDrainedOnce ==
  /\ \A i \in DOMAIN messages : hist.writes[i] <= 1
  /\ (AllSet /\ Quiescent) => \A i \in PendingIds(messages) : ~Decryptable(i)

\* C5: once a key is adopted and the transition that adopted it has ended, no
\* call of fetchKey or fetchKeyID is still suspended.
C5_NoWaiterWhileKeySet ==
  (AllSet /\ Len(life) = 0) => \A i \in 1..Len(ops) : ~Suspended(ops[i])

\* C6: when the promise of importSubscriptionKey or createGroupKey rejects, the
\* error is caught and the room has no key; here with one invocation of the
\* handler, so that one promise only is involved.
C6_KeylessAfterFailure ==
  [][(hist'.errors > hist.errors /\ hist.handled = 1) => AllUnset']_vars

\* C7: an evaluation of the computation whose snapshot is shallow-equal to the
\* stored one emits no metadataChanged, invokes no handler and leaves the
\* stored snapshot; every emission is one invocation of the handler, and the
\* stored snapshot is the last one emitted.
C7_EqualSnapshotSuppressed ==
  /\ [](metadata = hist.emitted /\ hist.handled = hist.metadataChanged)
  /\ [][(hist'.evals > hist.evals /\ isShallowEqual(metadata, hist'.read)) =>
          /\ hist'.metadataChanged = hist.metadataChanged
          /\ hist'.handled = hist.handled
          /\ metadata' = metadata]_vars

\* two evaluations, the second of a snapshot equal to the first, one invocation
C7_Witness ==
  /\ computation /\ hist.evals = 2 /\ hist.handled = 1
  /\ hist.read.present /\ isShallowEqual(metadata, hist.read)

\* C8: encryptMessage returns the message it was given, without suspending
\* and without the cipher, when the metadata is absent, when the room does not
\* require encryption, or when the message is of type e2e, with or without a
\* key.
C8_EncryptPassThrough ==
  [][(/\ hist'.encrypt.n > hist.encrypt.n
      /\ \/ ~metadata.present
         \/ ~metadata.encryptionRequired
         \/ hist'.encrypt.input.t = "e2e")
       => /\ hist'.encrypt.pc = "returned"
          /\ hist'.encrypt.out = hist'.encrypt.input
          /\ ops' = ops
          /\ hist'.encrypted = hist.encrypted]_vars

\* a message of type e2e given back as it was in a room that requires
\* encryption, with a key held
C8_Witness ==
  /\ hist.encrypt.n = 1 /\ hist.encrypt.pc = "returned" /\ hist.encrypt.keyHeld
  /\ hist.encrypt.input.t = "e2e" /\ metadata.present /\ metadata.encryptionRequired

RoundTrip == cPc = "decrypted" /\ dKey = cKey /\ dKeyID = cKeyID
GivesBack == dOut.res.ok /\ dOut.res.val = cIn

OtherKeyID == cPc = "decrypted" /\ dKeyID # cKeyID
NotDecryptable ==
  ~dOut.res.ok /\ dOut.res.err = "input is not decryptable" /\ dOut.aes = 0

C11_ProvideKeyGuarded ==
  [][hist'.provide.n > hist.provide.n =>
       IF hist'.provide.keyID = keyID /\ keyID # Undefined
         THEN /\ Len(rpc'.getUsers) = Len(rpc.getUsers) + 1
              /\ Len(dists') = Len(dists) + 1
              /\ rpc'.updateGroupKey = rpc.updateGroupKey
         ELSE /\ rpc' = rpc
              /\ UNCHANGED << key, keyID, sessionKeyExportedString, held, metadata,
                              life, dists, parts, ops, store, messages >>]_vars

\* a call naming another key id than the held one, and a call with no key held
C11_Witness ==
  /\ hist.provide.n = 1 /\ events = 2 /\ Len(dists) = 0 /\ Len(rpc.getUsers) = 0
  /\ AllSet /\ hist.provide.keyID # keyID /\ Len(life) = 0

C13_KeylessWhileAbsent ==
  (hist.handled >= 1 /\ ~metadata.present) => AllUnset

\* C14: at most one import or creation is in flight at a time, and no two
\* e2e.setRoomKeyID calls name different key ids.
C14_SingleFlight ==
  /\ Len(life) <= 1
  /\ \A m, n \in 1..Len(rpc.setRoomKeyID) :
       rpc.setRoomKeyID[m].keyID = rpc.setRoomKeyID[n].keyID

\* C15: a key adopted by a creation was posted by e2e.setRoomKeyID before, and
\* when the distribution of that creation has started (its request of
\* e2e.getUsersOfRoomWithoutKey is issued) keyChanged has been emitted for the
\* key.
C15_CreationOrder ==
  held.by = "create" =>
    /\ SetRoomKeyIDCalls(held.task) # {}
    /\ Answer(held.task) # {} => held.announced

\* C16: when the last run of the handler took the request branch, the last
\* e2e.keyRequest names the roomKeyID of the stored snapshot and the room has
\* no key.
C16_RequestBranchKeyless ==
  hist.branch = "request" =>
    /\ AllUnset
    /\ Len(rpc.keyRequest) >= 1
    /\ rpc.keyRequest[Len(rpc.keyRequest)] = metadata.roomKeyID

Triple == << key, keyID, sessionKeyExportedString >>

\* C17: a step changes key, keyID or sessionKeyExportedString only when it is
\* a run of the handler or the adoption by an import or a creation in flight;
\* every other step, those of encryptMessage, decryptMessage,
\* decryptLastMessage, decryptPendingMessages, provideKeyToUser,
\* encryptKeyForOtherParticipants and encryptForParticipant among them, leaves
\* the three fields as they are.
C17_TripleFrame ==
  [][/\ Triple' # Triple =>
          \/ hist'.handled > hist.handled
          \/ /\ AllSet'
             /\ \E i \in 1..Len(life) :
                  /\ life[i].id = held'.task
                  /\ life[i].pc \in {"importAESKey", "setRoomKeyID"}
     /\ (hist'.encrypt.n > hist.encrypt.n \/ hist'.provide.n > hist.provide.n)
          => Triple' = Triple]_vars

\* a distribution started by provideKeyToUser has pushed the key, which is held
C17_Witness ==
  /\ AllSet /\ hist.provide.n = 1
  /\ \E n \in 1..Len(rpc.updateGroupKey) : rpc.updateGroupKey[n].dist # held.task

\* C18: decryptMessage returns the message it was given when its t is not
\* e2e or its e2e is done; with waitForKey false and no key or keyID held it
\* returns the message as it is without suspending; with waitForKey true and
\* no key held it suspends; with no key held neither decryptMessage nor
\* encryptMessage fails.
C18_DecryptPassThrough ==
  [][/\ hist'.decrypt.n > hist.decrypt.n =>
          LET d == hist'.decrypt
              passes == d.pc = "returned" /\ d.out = d.input /\ ops' = ops
          IN /\ (d.input.t # "e2e" \/ d.input.e2e = "done") => passes
             /\ (~d.waitForKey /\ (key = Undefined \/ Falsy(keyID))) => passes
             /\ (d.waitForKey /\ key = Undefined /\ d.input.t = "e2e"
                   /\ d.input.e2e # "done") =>
                  /\ d.pc = "fetchKey"
                  /\ Len(ops') = Len(ops) + 1 /\ Suspended(ops'[Len(ops')])
             /\ key = Undefined => d.pc # "rejected"
     /\ (hist'.encrypt.n > hist.encrypt.n /\ key = Undefined) =>
          hist'.encrypt.pc \in {"returned", "fetchKey"}]_vars

\* a pending message given back as it is by a call that does not wait, made
\* with no key held
C18_Witness ==
  /\ hist.decrypt.n = 1 /\ ~hist.decrypt.waitForKey /\ ~hist.decrypt.keyHeld
  /\ hist.decrypt.input.e2e = "pending" /\ hist.decrypt.pc = "returned"
  /\ hist.decrypt.out = hist.decrypt.input

\* the callbacks of decryptPendingMessages in flight for the message i
DrainsOf(tasks, i) ==
  { n \in 1..Len(tasks) : tasks[n].op = "decryptPending" /\ tasks[n].msg._id = i }

\* C19: in a drain, a pending message whose key id is not the held keyID gets
\* no update and no callback left in flight, and stays as it is; every other
\* pending message of the drain gets its decryption started; and a message
\* changes only by the write of a callback that decrypted it, which marks it
\* done.
C19_NotDecryptableStaysPending ==
  [][/\ (hist'.handled > hist.handled /\ hist'.branch = "valid") =>
          \A i \in PendingIds(messages) :
            IF KeyIdMatches(messages[i].msg, keyID)
              THEN \E n \in DrainsOf(ops', i) :
                     n > Len(ops) /\ ops'[n].pc = "decryptAES" /\ ops'[n].key = key
              ELSE /\ \A n \in DrainsOf(ops', i) : n <= Len(ops)
                   /\ hist'.writes[i] = hist.writes[i]
                   /\ messages'[i] = messages[i]
     /\ \A i \in DOMAIN messages :
          (messages'[i] # messages[i] \/ hist'.writes[i] # hist.writes[i]) =>
            /\ \E n \in DrainsOf(ops, i) :
                 /\ ops[n].pc = "decryptAES"
                 /\ KeyIdMatches(ops[n].msg.msg, ops[n].keyID)
            /\ messages'[i].e2e = "done" /\ messages'[i].t = "e2e"]_vars

\* after a drain under the key of the first message: it is written as done,
\* the second one, of another key, is pending with its cipher text, unwritten
C19_Witness ==
  /\ messages[1].e2e = "done" /\ messages[1].msg = PlainText /\ hist.writes[1] = 1
  /\ messages[2] = InitialMessages[2] /\ hist.writes[2] = 0
  /\ hist.branch = "valid" /\ DrainsOf(ops, 2) = {}

\* C20: the first 12 characters of every wrapped key posted to
\* e2e.updateGroupKey are the key id derived from the exported material that
\* the push wraps.
C20_WrappedKeyPrefix ==
  \A n \in 1..Len(rpc.updateGroupKey) :
    extractEncryptedKeyId(rpc.updateGroupKey[n].key) = KeyIdOf(rpc.updateGroupKey[n].mat)

=============================================================================
